---- MODULE Spec2Model ----
(***************************************************************************)
(* Model of app/backend/server.py: the chat backend's HTTP handlers        *)
(* (upload_file, chat_stream and its generate() body, get_sessions,        *)
(* create_session, get_messages, delete_session) over the three document   *)
(* collections db.files, db.sessions and db.messages.                      *)
(*                                                                         *)
(* Every handler is a coroutine; it can be interleaved with other          *)
(* requests at each `await`.  One action of the model is the code that     *)
(* runs between two awaits: it applies the store operation the request was *)
(* waiting for and runs the handler up to its next await.  Values that the *)
(* code computes BEFORE the await (the Message built at line 157, the      *)
(* `$set` document built at line 169) are kept in the request's state and  *)
(* applied by the next action, exactly as the driver applies them.         *)
(***************************************************************************)
EXTENDS Integers, Sequences, FiniteSets, TLC

\* ------------------------------------------------------------- bounds
\* Number of chat requests the model follows.
MaxReqs == 2
\* Number of POST /sessions calls.
MaxCreate == 1
\* Number of POST /upload calls.
MaxUploads == 2
\* Longest file-id list of a chat request.
MaxReqFiles == 2
\* Number of later instants at which the wall clock is read.
MaxTick == 1
MaxLists == 1

\* ------------------------------------------------- program constants
\* to_list(100) of get_sessions, scaled down so that the cut-off happens.
SessionsLimit == 2
\* to_list(1000) of get_messages, scaled down so that the cut-off happens.
MessagesLimit == 3
\* datetime: microseconds per second.
USecPerSec == 1000000
\* isoformat: width of the microsecond field ("%06d").
USecDigits == 6
\* isoformat: width of the zero-padded date-and-time field (abstracted to
\* one zero-padded field counting seconds).
SecDigits == 2

Reqs == 1..MaxReqs
\* Session ids a client may send without having obtained them from
\* POST /sessions (the server never generates them).
ClientSids == {0}
\* File ids the server never generated.
BogusFiles == {0}
Texts == {"hello"}
Completions == {"hi there"}
Filenames == {[name |-> "a.txt", suffix |-> ".txt"]}
ContentTypes == {"text/plain"}
Sizes == {3}
\* The k-th instant at which datetime.now() is read: whole seconds and the
\* microsecond after them, in turn.
Instant(k) == (k \div 2) * USecPerSec + (k % 2)
TimePoints == {Instant(k) : k \in 0..MaxTick}

\* str(e) of the failures the handlers can meet.
ErrNoKey == "API key not configured"
ErrStore == "StorageError"
ErrGateway == "GatewayError"

\* ------------------------------------------------ datetime <-> string
\* Character codes of the characters isoformat() produces.
ChPlus == 43
ChDot == 46
ChZero == 48

RECURSIVE Pow10(_)
Pow10(n) == IF n = 0 THEN 1 ELSE 10 * Pow10(n - 1)

\* n as `width` zero-padded decimal digits.
Digits(n, width) ==
    [i \in 1..width |-> ChZero + ((n \div Pow10(width - i)) % 10)]

\* The number a sequence of digit characters denotes.
RECURSIVE DigitsValue(_)
DigitsValue(s) ==
    IF s = <<>> THEN 0
    ELSE 10 * DigitsValue(SubSeq(s, 1, Len(s) - 1)) + (s[Len(s)] - ChZero)

\* datetime.isoformat() of an aware UTC datetime: the microsecond field is
\* left out when it is zero; the offset "+00:00" is reduced to its first
\* character.
isoformat(t) ==
    Digits(t \div USecPerSec, SecDigits)
    \o (IF t % USecPerSec = 0 THEN <<>>
        ELSE <<ChDot>> \o Digits(t % USecPerSec, USecDigits))
    \o <<ChPlus>>

\* datetime.fromisoformat().
fromisoformat(s) ==
    LET sec == DigitsValue(SubSeq(s, 1, SecDigits))
    IN  IF s[SecDigits + 1] = ChDot
        THEN sec * USecPerSec
             + DigitsValue(SubSeq(s, SecDigits + 2, SecDigits + 1 + USecDigits))
        ELSE sec * USecPerSec

\* The store's order on strings: by character code, a proper prefix first.
StrLess(a, b) ==
    \E i \in 1..Len(b) :
        /\ i <= Len(a) + 1
        /\ \A j \in 1..(i - 1) : a[j] = b[j]
        /\ (i = Len(a) + 1 \/ a[i] < b[i])

StrLeq(a, b) == a = b \/ StrLess(a, b)

\* gone: the chat requests whose client has disconnected from the stream.
\* listed: what earlier GET /sessions calls returned to clients.
VARIABLES now, api_key, files, sessions, messages, req, resp, del,
          nextSession, nextFile, gone, listed

vars == <<now, api_key, files, sessions, messages, req, resp, del,
          nextSession, nextFile, gone, listed>>

\* ---------------------------------------------------------- documents
\* request.files / Message.files when the client sent no list (None and the
\* empty list are not told apart: line 135 treats them alike).
NoFiles == <<>>
\* A timestamp not yet taken.
NoTime == <<>>

IdleReq ==
    [pc |-> "idle", message |-> "", session_id |-> 0, files |-> NoFiles,
     i |-> 0, file_contents |-> <<>>, user_ts |-> NoTime,
     touch_ts |-> NoTime, response |-> "", assistant_ts |-> NoTime,
     raised |-> ""]

NoResp == [status |-> 0, detail |-> "", frames |-> <<>>]

IdleDel == [pc |-> "idle", session_id |-> 0, quiet |-> FALSE]

\* uuid4() of Message.id: one fresh token per constructed Message.
MessageId(r, role) == <<r, role>>

\* user_message.model_dump() after prepare_for_mongo.
UserDoc(r) ==
    [id |-> MessageId(r, "user"), session_id |-> req[r].session_id,
     role |-> "user", content |-> req[r].message,
     timestamp |-> req[r].user_ts, files |-> req[r].files]

\* AssistantDoc carrying the request's file ids.
AssistantDoc_WithFiles(r) ==
    [id |-> MessageId(r, "assistant"), session_id |-> req[r].session_id,
     role |-> "assistant", content |-> req[r].response,
     timestamp |-> req[r].assistant_ts, files |-> req[r].files]

\* assistant_message.model_dump() after prepare_for_mongo.
AssistantDoc(r) ==
    [id |-> MessageId(r, "assistant"), session_id |-> req[r].session_id,
     role |-> "assistant", content |-> req[r].response,
     timestamp |-> req[r].assistant_ts, files |-> NoFiles]

\* ------------------------------------------------- store operations
\* Positions of the documents of a collection that match {"id": id}.
Matching(coll, id) == {k \in 1..Len(coll) : coll[k].id = id}

\* The first matching document's position.
FirstMatch(coll, id) ==
    CHOOSE k \in Matching(coll, id) : \A j \in Matching(coll, id) : k <= j

\* db.files.find_one({"id": file_id}): the document's position, 0 when absent.
find_one(coll, id) ==
    IF Matching(coll, id) = {} THEN 0 ELSE FirstMatch(coll, id)

\* coll without its k-th document.
RemoveAt(coll, k) == SubSeq(coll, 1, k - 1) \o SubSeq(coll, k + 1, Len(coll))

\* db.sessions.delete_one({"id": id}): removes at most one document.
delete_one(coll, id) ==
    IF Matching(coll, id) = {} THEN coll
    ELSE RemoveAt(coll, FirstMatch(coll, id))

\* delete_many removing the first matching document only.
delete_many_First(coll, id) ==
    IF \E k \in 1..Len(coll) : coll[k].session_id = id
    THEN RemoveAt(coll, CHOOSE k \in 1..Len(coll) :
                          /\ coll[k].session_id = id
                          /\ \A j \in 1..(k - 1) : coll[j].session_id # id)
    ELSE coll

\* db.messages.delete_many({"session_id": id}).
delete_many(coll, id) == SelectSeq(coll, LAMBDA m : m.session_id # id)

\* update_one that matches and sets nothing.
update_one_Noop(coll, id, ts) == coll

\* update_one({"id": id}, {"$set": {"updated_at": ts}}) on a match.
update_one(coll, id, ts) ==
    [coll EXCEPT ![FirstMatch(coll, id)].updated_at = ts]

\* The document an upsert inserts: the filter's fields and the $set fields.
UpsertDoc(id, ts) == [id |-> id, updated_at |-> ts]

\* ChatSession(title="New Chat").model_dump() after prepare_for_mongo.
SessionDoc(id, created, updated) ==
    [id |-> id, title |-> "New Chat", created_at |-> isoformat(created),
     updated_at |-> isoformat(updated)]

\* Ids clients hold: the ones POST /sessions returned and their own.
KnownSids == ClientSids \cup (1..(nextSession - 1))

\* File ids clients hold: the ones POST /upload returned, and bogus ones.
KnownFiles == BogusFiles \cup {files[k].id : k \in 1..Len(files)}

SeqsUpTo(S, n) == UNION {[1..k -> S] : k \in 0..n}

\* ------------------------------------------------------------- Init
Init ==
    /\ now = 0
    /\ api_key \in BOOLEAN
    /\ files = <<>>
    /\ sessions = <<>>
    /\ messages = <<>>
    /\ req = [r \in Reqs |-> IdleReq]
    /\ resp = [r \in Reqs |-> NoResp]
    /\ del = IdleDel
    /\ nextSession = 1
    /\ nextFile = 1
    /\ gone = {}
    /\ listed = <<>>

\* The wall clock moves on.
Tick ==
    /\ \E t \in TimePoints : t > now /\ now' = t
    /\ UNCHANGED <<api_key, files, sessions, messages, req, resp, del,
                   nextSession, nextFile,
                   gone, listed>>

\* UploadOk with the file stored under the client's file name instead of
\* under the generated id.
UploadOk_ByName ==
    /\ nextFile <= MaxUploads
    /\ \E fn \in Filenames, ct \in ContentTypes, sz \in Sizes :
          files' = Append(files,
                          [id |-> nextFile, filename |-> fn.name,
                           path |-> <<"uploads", fn.name>>,
                           content_type |-> ct, size |-> sz])
    /\ nextFile' = nextFile + 1
    /\ UNCHANGED <<now, api_key, sessions, messages, req, resp, del,
                   nextSession,
                   gone, listed>>

\* ------------------------------------------------------ POST /upload
\* upload_file, the insert succeeding.  (uploaded_at, which no handler
\* reads, is left out of the document.)
UploadOk ==
    /\ nextFile <= MaxUploads
    /\ \E fn \in Filenames, ct \in ContentTypes, sz \in Sizes :
          files' = Append(files,
                          [id |-> nextFile, filename |-> fn.name,
                           path |-> <<"uploads", nextFile, fn.suffix>>,
                           content_type |-> ct, size |-> sz])
    /\ nextFile' = nextFile + 1
    /\ UNCHANGED <<now, api_key, sessions, messages, req, resp, del,
                   nextSession,
                   gone, listed>>

\* upload_file, db.files.insert_one raising: HTTP 500, no record.
UploadFail ==
    /\ nextFile <= MaxUploads
    /\ UNCHANGED vars

\* ---------------------------------------------------- POST /sessions
\* create_session: created_at and updated_at are two readings of the clock.
CreateSessionOk ==
    /\ nextSession <= MaxCreate
    /\ \E t \in TimePoints :
          /\ t >= now
          /\ now' = t
          /\ sessions' = Append(sessions, SessionDoc(nextSession, now, t))
    /\ nextSession' = nextSession + 1
    /\ UNCHANGED <<api_key, files, messages, req, resp, del, nextFile,
                   gone, listed>>

\* create_session, db.sessions.insert_one raising: HTTP 500.
CreateSessionFail ==
    /\ nextSession <= MaxCreate
    /\ UNCHANGED vars

\* ------------------------------------------------- POST /chat/stream
\* The request's state once its handler has ended with exception e ("" for
\* none): the request itself and the completion stay on record, the other
\* locals are gone.
Closed(q, e) ==
    [IdleReq EXCEPT !.pc = "closed", !.message = q.message,
                    !.session_id = q.session_id, !.response = q.response,
                    !.raised = e]

\* Requests are numbered in the order they arrive.
Arrives(r) ==
    req[r].pc = "idle" /\ (IF r = 1 THEN TRUE ELSE req[r - 1].pc # "idle")

\* Lines 196-198: an exception outside generate() becomes HTTP 500.
Fail500(r, e) ==
    /\ req' = [req EXCEPT ![r] = Closed(@, e)]
    /\ resp' = [resp EXCEPT ![r] = [status |-> 500, detail |-> e,
                                    frames |-> <<>>]]

\* Lines 150-164: build the user Message (its timestamp is read here) and
\* issue its insert.
BuildUserMessage(q) ==
    [q EXCEPT !.pc = "ins_user", !.user_ts = isoformat(now)]

\* ChatNoKey without the check of lines 121-122: the request goes on to build
\* and persist its user message.
ChatNoKey_Unchecked(r) ==
    /\ Arrives(r)
    /\ ~api_key
    /\ \E m \in Texts, sid \in KnownSids :
           req' = [req EXCEPT ![r] =
                      BuildUserMessage([@ EXCEPT !.message = m,
                                                 !.session_id = sid])]
    /\ UNCHANGED <<now, api_key, files, sessions, messages, resp, del,
                   nextSession, nextFile,
                   gone, listed>>

\* Lines 120-124: no credential.
ChatNoKey(r) ==
    /\ Arrives(r)
    /\ ~api_key
    /\ Fail500(r, ErrNoKey)
    /\ UNCHANGED <<now, api_key, files, sessions, messages, del,
                   nextSession, nextFile,
                   gone, listed>>

\* Lines 120-138 / 120-164: the request is received, its session id one of
\* Sids and its file-id list one of FileLists.
Receive(r, Sids, FileLists) ==
    /\ Arrives(r)
    /\ api_key
    /\ \E m \in Texts, sid \in Sids, fl \in FileLists :
          LET q == [req[r] EXCEPT !.message = m, !.session_id = sid,
                                  !.files = fl]
          IN  /\ req' = [req EXCEPT ![r] =
                           IF fl = NoFiles THEN BuildUserMessage(q)
                           ELSE [q EXCEPT !.pc = "lookup", !.i = 1]]
              /\ del' = IF del.pc = "done" /\ del.session_id = sid
                        THEN IdleDel ELSE del
    /\ UNCHANGED <<now, api_key, files, sessions, messages, resp,
                   nextSession, nextFile,
                   gone, listed>>

\* A chat request without attachments.
ChatReceive(r) == Receive(r, KnownSids, {NoFiles})

\* A chat request with a file-id list.
ChatReceiveFiles(r) ==
    Receive(r, KnownSids, SeqsUpTo(KnownFiles, MaxReqFiles) \ {NoFiles})

\* FileContentWithMimeType(file_path, mime_type) of a file document.
FileContent(doc) == [file_path |-> doc.path, mime_type |-> doc.content_type]

\* Resolve putting the newest attachment first.
Resolve_Prepend(contents, file_id) ==
    IF find_one(files, file_id) # 0
    THEN <<FileContent(files[find_one(files, file_id)])>> \o contents
    ELSE contents

\* Lines 138-148: what one find_one adds to file_contents.
Resolve(contents, file_id) ==
    IF find_one(files, file_id) # 0
    THEN Append(contents, FileContent(files[find_one(files, file_id)]))
    ELSE contents

\* Lines 136-148: one find_one returns; the loop goes on or ends.
ChatLookup(r) ==
    /\ req[r].pc = "lookup"
    /\ LET q == [req[r] EXCEPT
                   !.file_contents = Resolve(@, req[r].files[req[r].i]),
                   !.i = @ + 1]
       IN  req' = [req EXCEPT ![r] =
                     IF req[r].i = Len(req[r].files) THEN BuildUserMessage(q)
                     ELSE q]
    /\ UNCHANGED <<now, api_key, files, sessions, messages, resp, del,
                   nextSession, nextFile,
                   gone, listed>>

\* Line 138 raising: caught at line 196.
ChatLookupFail(r) ==
    /\ req[r].pc = "lookup"
    /\ Fail500(r, ErrStore)
    /\ UNCHANGED <<now, api_key, files, sessions, messages, del,
                   nextSession, nextFile,
                   gone, listed>>

\* ChatInsertUser with the touch time read once, when the process started,
\* instead of at line 169.
ChatInsertUser_StartupTime(r) ==
    /\ req[r].pc = "ins_user"
    /\ messages' = Append(messages, UserDoc(r))
    /\ req' = [req EXCEPT ![r].pc = "touch",
                          ![r].touch_ts = isoformat(Instant(0))]
    /\ UNCHANGED <<now, api_key, files, sessions, resp, del, nextSession,
                   nextFile, gone, listed>>

\* ChatInsertUser going on to the stream and the LLM call without touching
\* the session.
ChatInsertUser_SkipTouch(r) ==
    /\ req[r].pc = "ins_user"
    /\ messages' = Append(messages, UserDoc(r))
    /\ req' = [req EXCEPT ![r].pc = "llm", ![r].user_ts = NoTime]
    /\ resp' = [resp EXCEPT ![r].status = 200]
    /\ UNCHANGED <<now, api_key, files, sessions, del, nextSession,
                   nextFile, gone, listed>>

\* Lines 164-169: the user message is inserted; the touch is issued with the
\* time read now.
ChatInsertUser(r) ==
    /\ req[r].pc = "ins_user"
    /\ messages' = Append(messages, UserDoc(r))
    /\ req' = [req EXCEPT ![r].pc = "touch", ![r].touch_ts = isoformat(now)]
    /\ UNCHANGED <<now, api_key, files, sessions, resp, del, nextSession,
                   nextFile,
                   gone, listed>>

\* Line 164 raising.
ChatInsertUserFail(r) ==
    /\ req[r].pc = "ins_user"
    /\ Fail500(r, ErrStore)
    /\ UNCHANGED <<now, api_key, files, sessions, messages, del,
                   nextSession, nextFile,
                   gone, listed>>

\* Lines 174-194: the handler returns the StreamingResponse; generate()
\* starts and issues the LLM call.
StartStream(r) ==
    /\ req' = [req EXCEPT ![r].pc = "llm", ![r].user_ts = NoTime,
                          ![r].touch_ts = NoTime]
    /\ resp' = [resp EXCEPT ![r].status = 200]

\* Lines 167-171: the update finds a session document and sets updated_at.
ChatTouchUpdate(r) ==
    /\ req[r].pc = "touch"
    /\ Matching(sessions, req[r].session_id) # {}
    /\ sessions' = update_one(sessions, req[r].session_id, req[r].touch_ts)
    /\ StartStream(r)
    /\ UNCHANGED <<now, api_key, files, messages, del, nextSession, nextFile,
                   gone, listed>>

\* Lines 167-171, upsert=True: the update finds no document and goes on to
\* insert one.  The store does not make the two atomic (no unique index).
ChatTouchMiss(r) ==
    /\ req[r].pc = "touch"
    /\ Matching(sessions, req[r].session_id) = {}
    /\ req' = [req EXCEPT ![r].pc = "upsert"]
    /\ UNCHANGED <<now, api_key, files, sessions, messages, resp, del,
                   nextSession, nextFile,
                   gone, listed>>

\* Lines 167-171, upsert=True: the insert of the upsert.
ChatTouchInsert(r) ==
    /\ req[r].pc = "upsert"
    /\ sessions' = Append(sessions,
                          UpsertDoc(req[r].session_id, req[r].touch_ts))
    /\ StartStream(r)
    /\ UNCHANGED <<now, api_key, files, messages, del, nextSession, nextFile,
                   gone, listed>>

\* Line 167 raising.
ChatTouchFail(r) ==
    /\ req[r].pc \in {"touch", "upsert"}
    /\ Fail500(r, ErrStore)
    /\ UNCHANGED <<now, api_key, files, sessions, messages, del,
                   nextSession, nextFile,
                   gone, listed>>

\* Lines 177-186: the completion arrives; the assistant Message is built
\* (its timestamp is read here) and its insert issued.
LlmOk(r) ==
    /\ req[r].pc = "llm"
    /\ \E c \in Completions :
          req' = [req EXCEPT ![r].pc = "ins_asst", ![r].response = c,
                             ![r].assistant_ts = isoformat(now)]
    /\ UNCHANGED <<now, api_key, files, sessions, messages, resp, del,
                   nextSession, nextFile,
                   gone, listed>>

\* ErrorFrame with the except clause only logging: no frame is yielded.
ErrorFrame_Silent(r, e) ==
    /\ req' = [req EXCEPT ![r] = Closed(@, e)]
    /\ resp' = resp

\* Lines 190-192: an exception inside generate() becomes one error frame,
\* and the generator ends.
ErrorFrame(r, e) ==
    /\ req' = [req EXCEPT ![r] = Closed(@, e)]
    /\ resp' = [resp EXCEPT ![r].frames = Append(@, [error |-> e])]

\* LlmFail with a compensating rollback of the user message.
LlmFail_Rollback(r) ==
    /\ req[r].pc = "llm"
    /\ ErrorFrame(r, ErrGateway)
    /\ messages' = SelectSeq(messages, LAMBDA m : m.id # MessageId(r, "user"))
    /\ UNCHANGED <<now, api_key, files, sessions, del, nextSession, nextFile,
                   gone, listed>>

\* Line 177 raising.
LlmFail(r) ==
    /\ req[r].pc = "llm"
    /\ ErrorFrame(r, ErrGateway)
    /\ UNCHANGED <<now, api_key, files, sessions, messages, del,
                   nextSession, nextFile,
                   gone, listed>>

\* Lines 186-189: the assistant message is inserted and the data frame sent.
ChatInsertAssistant(r) ==
    /\ req[r].pc = "ins_asst"
    /\ messages' = Append(messages, AssistantDoc(r))
    /\ req' = [req EXCEPT ![r] = Closed(@, "")]
    /\ resp' = [resp EXCEPT ![r].frames =
                  Append(@, [content |-> req[r].response, done |-> TRUE])]
    /\ UNCHANGED <<now, api_key, files, sessions, del, nextSession, nextFile,
                   gone, listed>>

\* ChatInsertAssistantFail with the exception leaving generate() and reported
\* like a failure before the stream.
ChatInsertAssistantFail_Raise(r) ==
    /\ req[r].pc = "ins_asst"
    /\ Fail500(r, ErrStore)
    /\ UNCHANGED <<now, api_key, files, sessions, messages, del,
                   nextSession, nextFile,
                   gone, listed>>

\* Line 186 raising.
ChatInsertAssistantFail(r) ==
    /\ req[r].pc = "ins_asst"
    /\ ErrorFrame(r, ErrStore)
    /\ UNCHANGED <<now, api_key, files, sessions, messages, del,
                   nextSession, nextFile,
                   gone, listed>>

\* ------------------------------------------- the client disconnects
\* The exception a cancelled task receives at its pending await.  It is not
\* an Exception, so the except clause of line 190 does not catch it.
ErrCancelled == "CancelledError"

\* The client closes the connection while generate() waits at line 177 or
\* 186, and the server leaves the generator running: the disconnect shows
\* only when the frame is sent.
ClientDisconnect(r) ==
    /\ req[r].pc \in {"llm", "ins_asst"}
    /\ r \notin gone
    /\ gone' = gone \cup {r}
    /\ UNCHANGED <<now, api_key, files, sessions, messages, req, resp, del,
                   nextSession, nextFile, listed>>

\* The client closes the connection while generate() waits at line 177 or
\* 186, and the server cancels the task that runs the generator: the pending
\* await raises, nothing is yielded and nothing after it runs.  An insert
\* that was already issued (line 186) may or may not reach the store.
ClientDisconnectCancel(r) ==
    /\ req[r].pc \in {"llm", "ins_asst"}
    /\ r \notin gone
    /\ gone' = gone \cup {r}
    /\ req' = [req EXCEPT ![r] = Closed(@, ErrCancelled)]
    /\ messages' \in IF req[r].pc = "ins_asst"
                     THEN {messages, Append(messages, AssistantDoc(r))}
                     ELSE {messages}
    /\ UNCHANGED <<now, api_key, files, sessions, resp, del,
                   nextSession, nextFile, listed>>

\* -------------------------------------------- DELETE /sessions/{id}
\* del follows one delete_session call at a time.  After the call has
\* returned, del stays "done" for as long as no chat request for the deleted
\* id has been received since; `quiet` records that no chat request for
\* the id was in flight when the call returned.
InFlight(sid) ==
    {r \in Reqs : req[r].session_id = sid /\ req[r].pc \notin {"idle", "closed"}}

\* Line 232: delete_one is applied.
DeleteSessionOne ==
    /\ del.pc \in {"idle", "done"}
    /\ \E sid \in KnownSids :
          /\ sessions' = delete_one(sessions, sid)
          /\ del' = [pc |-> "many", session_id |-> sid, quiet |-> FALSE]
    /\ UNCHANGED <<now, api_key, files, messages, req, resp, nextSession,
                   nextFile,
                   gone, listed>>

\* Line 233-234: delete_many is applied and the handler returns
\* {"message": "Session deleted"}.
DeleteSessionMany ==
    /\ del.pc = "many"
    /\ messages' = delete_many(messages, del.session_id)
    /\ del' = [del EXCEPT !.pc = "done",
                          !.quiet = (InFlight(del.session_id) = {})]
    /\ UNCHANGED <<now, api_key, files, sessions, req, resp, nextSession,
                   nextFile,
                   gone, listed>>

\* Line 233 raising: the session document is gone, its messages stay.
DeleteSessionManyFail ==
    /\ del.pc = "many"
    /\ del' = IdleDel
    /\ UNCHANGED <<now, api_key, files, sessions, messages, req, resp,
                   nextSession, nextFile,
                   gone, listed>>

\* ------------------------------------------------------ GET handlers
Min(a, b) == IF a <= b THEN a ELSE b

\* sort(field, direction): the orders in which the store may return the
\* documents whose values of the field are keys, least first for direction 1
\* and greatest first for direction -1; equal keys come in any order.
SortOrders(keys, direction) ==
    {p \in Permutations(1..Len(keys)) :
        \A i, j \in 1..Len(keys) :
            i < j => IF direction = 1 THEN StrLeq(keys[p[i]], keys[p[j]])
                     ELSE StrLeq(keys[p[j]], keys[p[i]])}

\* find(...).sort(field, direction).to_list(limit): the possible results.
Cursor(coll, keys, direction, limit) ==
    {[i \in 1..Min(limit, Len(coll)) |-> coll[p[i]]] :
        p \in SortOrders(keys, direction)}

\* SessionOut with a missing created_at backfilled with the time of the call.
SessionOut_BackfillNow(doc) ==
    [id |-> doc.id,
     title |-> IF "title" \in DOMAIN doc THEN doc.title ELSE "New Chat",
     created_at |-> IF "created_at" \in DOMAIN doc
                    THEN fromisoformat(doc.created_at)
                    ELSE now,
     updated_at |-> fromisoformat(doc.updated_at)]

\* Lines 204-210: parse_from_mongo and the backfill of title and created_at.
SessionOut(doc) ==
    [id |-> doc.id,
     title |-> IF "title" \in DOMAIN doc THEN doc.title ELSE "New Chat",
     created_at |-> IF "created_at" \in DOMAIN doc
                    THEN fromisoformat(doc.created_at)
                    ELSE fromisoformat(doc.updated_at),
     updated_at |-> fromisoformat(doc.updated_at)]

\* Lines 225-226: parse_from_mongo of a message.
MessageOut(doc) == [doc EXCEPT !.timestamp = fromisoformat(@)]

\* The updated_at strings of the session documents.
UpdatedAtKeys == [k \in DOMAIN sessions |-> sessions[k].updated_at]

\* get_sessions sorting in ascending order.
get_sessions_Ascending ==
    {[i \in DOMAIN c |-> SessionOut(c[i])] :
        c \in Cursor(sessions, UpdatedAtKeys, 1, SessionsLimit)}

\* get_sessions: the lists it can return in the current state.
get_sessions ==
    {[i \in DOMAIN c |-> SessionOut(c[i])] :
        c \in Cursor(sessions, UpdatedAtKeys, -1, SessionsLimit)}

\* find({"session_id": session_id}) of get_messages.
MessagesIn(session_id) ==
    SelectSeq(messages, LAMBDA m : m.session_id = session_id)

\* The timestamp strings of a sequence of message documents.
TimestampKeys(coll) == [k \in DOMAIN coll |-> coll[k].timestamp]

\* get_messages without the session filter.
get_messages_AllSessions(session_id) ==
    {[i \in DOMAIN c |-> MessageOut(c[i])] :
        c \in Cursor(messages, TimestampKeys(messages), 1, MessagesLimit)}

\* get_messages(session_id): the lists it can return in the current state.
get_messages(session_id) ==
    {[i \in DOMAIN c |-> MessageOut(c[i])] :
        c \in Cursor(MessagesIn(session_id),
                     TimestampKeys(MessagesIn(session_id)), 1, MessagesLimit)}

\* ------------------------------------------------------ specifications
\* Steps every chat request takes once it has been received.
ChatStep(r) ==
    \/ ChatNoKey(r)
    \/ ChatInsertUser(r)
    \/ ChatInsertUserFail(r)
    \/ ChatTouchUpdate(r)
    \/ ChatTouchMiss(r)
    \/ ChatTouchInsert(r)
    \/ ChatTouchFail(r)
    \/ LlmOk(r)
    \/ LlmFail(r)
    \/ ChatInsertAssistant(r)
    \/ ChatInsertAssistantFail(r)

\* ------------------------------------------------------ GET /sessions
\* get_sessions returns one of the lists the cursor can produce; listed keeps
\* the (id, created_at) pairs of the entries the client received.
GetSessions ==
    /\ Len(listed) < MaxLists
    /\ \E out \in get_sessions :
           listed' = Append(listed,
                            {<<out[i].id, out[i].created_at>> : i \in DOMAIN out})
    /\ UNCHANGED <<now, api_key, files, sessions, messages, req, resp, del,
                   nextSession, nextFile, gone>>

\* Sessions, messages and the clock: chat requests without attachments,
\* session creation and deletion.
Next ==
    \/ Tick
    \/ CreateSessionOk
    \/ CreateSessionFail
    \/ \E r \in Reqs : ChatReceive(r)
    \/ \E r \in Reqs : ChatStep(r)
    \/ DeleteSessionOne
    \/ DeleteSessionMany
    \/ DeleteSessionManyFail

Spec == Init /\ [][Next]_vars

\* Chat requests with and without attachments, and uploads; no session is
\* created or deleted and the clock stands still.
NextChat ==
    \/ UploadOk
    \/ UploadFail
    \/ \E r \in Reqs : ChatReceive(r)
    \/ \E r \in Reqs : ChatReceiveFiles(r)
    \/ \E r \in Reqs : ChatLookup(r)
    \/ \E r \in Reqs : ChatLookupFail(r)
    \/ \E r \in Reqs : ChatStep(r)

SpecChat == Init /\ [][NextChat]_vars

\* ---------------------------------------------------------------- claims
IsData(f) == DOMAIN f = {"content", "done"}
IsError(f) == DOMAIN f = {"error"}

\* Positions of the messages that request r constructed.
MessagesOf(r) == {k \in 1..Len(messages) : messages[k].id[1] = r}

\* C1: a chat request that returned a streamed response (status 200) has
\* emitted no frame while its generator runs and exactly one frame once the
\* generator has ended: the data frame {content, done: true} when nothing was
\* raised, the error frame {error} when the LLM call or the assistant-message
\* write raised.
C1_ExactlyOneFrame ==
    \A r \in Reqs :
        resp[r].status = 200 =>
            IF req[r].pc = "closed"
            THEN /\ Len(resp[r].frames) = 1
                 /\ IF req[r].raised = ""
                    THEN IsData(resp[r].frames[1]) /\ resp[r].frames[1].done
                    ELSE IsError(resp[r].frames[1])
            ELSE resp[r].frames = <<>>

\* One stream ended with a data frame, another with the error frame of a
\* failed assistant-message write.
C1_Witness ==
    \E r, q \in Reqs :
        /\ resp[r].status = 200 /\ req[r].pc = "closed" /\ req[r].raised = ""
        /\ IsData(resp[r].frames[1])
        /\ resp[q].status = 200 /\ req[q].raised = ErrStore
        /\ IsError(resp[q].frames[1])

\* C2: when the LLM call of a chat request has failed, the request's user
\* message is persisted (nothing rolls it back), the request has created no
\* assistant message, and its stream carries the error frame and no data
\* frame.  (Stated where no delete_session runs.)
C2_LlmFailure ==
    \A r \in Reqs :
        req[r].raised = ErrGateway =>
            /\ resp[r].status = 200
            /\ resp[r].frames = <<[error |-> ErrGateway]>>
            /\ \E k \in MessagesOf(r) :
                  /\ messages[k].role = "user"
                  /\ messages[k].content = req[r].message
                  /\ messages[k].session_id = req[r].session_id
            /\ \A k \in MessagesOf(r) : messages[k].role # "assistant"

\* A request whose LLM call failed after its attachments were looked up.
C2_Witness ==
    \E r \in Reqs :
        /\ req[r].raised = ErrGateway
        /\ \E k \in MessagesOf(r) : messages[k].files # NoFiles

\* C3: when a chat request has ended without any failure, the store holds
\* exactly one user message of it (role user, the request's text) and exactly
\* one assistant message of it (role assistant, the completion, no files),
\* both in the request's session, and the stream is the single data frame
\* with that completion and done = true.  (Stated where no delete_session
\* runs.)
C3_Success ==
    \A r \in Reqs :
        (req[r].pc = "closed" /\ resp[r].status = 200 /\ req[r].raised = "") =>
            LET U == {k \in MessagesOf(r) : messages[k].role = "user"}
                A == {k \in MessagesOf(r) : messages[k].role = "assistant"}
            IN  /\ Cardinality(U) = 1
                /\ Cardinality(A) = 1
                /\ MessagesOf(r) = U \cup A
                /\ \A k \in MessagesOf(r) :
                      messages[k].session_id = req[r].session_id
                /\ \A k \in U : messages[k].content = req[r].message
                /\ \A k \in A : /\ messages[k].content = req[r].response
                                /\ messages[k].files = NoFiles
                /\ req[r].response \in Completions
                /\ resp[r].frames =
                      <<[content |-> req[r].response, done |-> TRUE]>>

\* Two requests for the same session, one of them with attachments, have
\* both ended successfully.
C3_Witness ==
    \E r, q \in Reqs :
        /\ r # q
        /\ req[r].session_id = req[q].session_id
        /\ \A x \in {r, q} :
              req[x].pc = "closed" /\ resp[x].status = 200 /\ req[x].raised = ""
        /\ \E k \in MessagesOf(r) : messages[k].files # NoFiles

\* Every session id a request can name.
AllSids == ClientSids \cup (1..MaxCreate)

\* C4 as claimed: once delete_session(id) has returned and no chat request
\* for id has been received since, list_messages(id) is empty.
C4_Original ==
    del.pc = "done" => get_messages(del.session_id) = {<<>>}

\* C4, amended: once delete_session(id) has returned, list_messages(id) is
\* empty for as long as no chat request for id has been received since,
\* provided no chat request for id was in flight when the call returned.
C4_DeleteThenList ==
    (del.pc = "done" /\ del.quiet) => get_messages(del.session_id) = {<<>>}

\* A session whose chat request had persisted both its messages has been
\* deleted.
C4_Witness ==
    /\ del.pc = "done" /\ del.quiet
    /\ \E r \in Reqs :
          /\ req[r].session_id = del.session_id
          /\ req[r].pc = "closed" /\ resp[r].status = 200 /\ req[r].raised = ""

\* C5 as claimed: for every persisted user message whose request has
\* completed its touch (the handler has returned the 200 response) and whose
\* session document exists, the session's updated_at is not earlier than the
\* message's timestamp.
C5_Original ==
    \A r \in Reqs :
        resp[r].status = 200 =>
            \A k \in MessagesOf(r), j \in Matching(sessions, req[r].session_id) :
                messages[k].role = "user" =>
                    fromisoformat(sessions[j].updated_at)
                        >= fromisoformat(messages[k].timestamp)

\* C5, amended: at the step that applies a request's touch, the session has
\* a document whose updated_at is not earlier than the timestamp of that
\* request's user message.
C5_TouchApplied ==
    [][\A r \in Reqs :
          (resp[r].status # 200 /\ resp'[r].status = 200) =>
              \E j \in Matching(sessions', req[r].session_id) :
                  fromisoformat(sessions'[j].updated_at)
                      >= fromisoformat(req[r].user_ts)]_vars

\* Two requests for one session, their user messages built at different
\* instants, have both applied their touch.
C5_Witness ==
    \E r, q \in Reqs :
        /\ r # q /\ req[r].session_id = req[q].session_id
        /\ resp[r].status = 200 /\ resp[q].status = 200
        /\ \E k \in MessagesOf(r), l \in MessagesOf(q) :
              /\ messages[k].role = "user" /\ messages[l].role = "user"
              /\ messages[k].timestamp # messages[l].timestamp

\* C6 as claimed: once a chat request has ended (here: without any failure),
\* its session's updated_at is not earlier than the timestamp of any message
\* the request appended, user or assistant.
C6_BumpedOnEveryAppend ==
    \A r \in Reqs :
        (req[r].pc = "closed" /\ resp[r].status = 200 /\ req[r].raised = "") =>
            \A k \in MessagesOf(r), j \in Matching(sessions, req[r].session_id) :
                fromisoformat(sessions[j].updated_at)
                    >= fromisoformat(messages[k].timestamp)

\* C7: every list get_sessions can return has at most SessionsLimit entries,
\* each a session of the store, in descending order of updated_at, and no
\* session left out has a later updated_at than one returned.
C7_ListSessions ==
    \A out \in get_sessions :
        /\ Len(out) <= SessionsLimit
        /\ \A i, j \in DOMAIN out : i < j => out[i].updated_at >= out[j].updated_at
        /\ \A i \in DOMAIN out :
              /\ \E k \in DOMAIN sessions :
                    /\ sessions[k].id = out[i].id
                    /\ fromisoformat(sessions[k].updated_at) = out[i].updated_at
              /\ Cardinality({k \in DOMAIN sessions :
                     fromisoformat(sessions[k].updated_at) > out[i].updated_at})
                 = Cardinality({j \in DOMAIN out :
                     out[j].updated_at > out[i].updated_at})

\* The store holds more sessions than get_sessions returns, updated at
\* different instants.
C7_Witness ==
    /\ Len(sessions) > SessionsLimit
    /\ \E i, j \in DOMAIN sessions : sessions[i].updated_at # sessions[j].updated_at

\* C8: every list get_messages(id) can return has at most MessagesLimit
\* entries, all of session id, in ascending order of timestamp.
C8_ListMessages ==
    \A sid \in AllSids :
        \A out \in get_messages(sid) :
            /\ Len(out) <= MessagesLimit
            /\ \A i \in DOMAIN out : out[i].session_id = sid
            /\ \A i, j \in DOMAIN out : i < j => out[i].timestamp <= out[j].timestamp

\* A session holds more messages than get_messages returns, written at
\* different instants and not in the order of their timestamps.
C8_Witness ==
    \E sid \in AllSids :
        LET mine == MessagesIn(sid)
        IN  /\ Len(mine) > MessagesLimit
            /\ \E i, j \in DOMAIN mine :
                  i < j /\ StrLess(mine[j].timestamp, mine[i].timestamp)

\* The attachments line 138-148 must produce for a file-id list: the
\* documents of the ids that are in the File Store, in the list's order.
ResolvedAttachments(ids) ==
    LET found == SelectSeq(ids, LAMBDA f : \E k \in DOMAIN files : files[k].id = f)
    IN  [i \in DOMAIN found |->
            LET doc == CHOOSE d \in {files[k] : k \in DOMAIN files} : d.id = found[i]
            IN  [file_path |-> doc.path, mime_type |-> doc.content_type]]

\* C9: once a chat request has looked up its file ids, the attachments it
\* passes to the LLM Gateway are those of the requested ids that are in the
\* File Store, in request order; an id that is not there raises nothing (the
\* only exceptions are a missing credential, a store failure and a gateway
\* failure); and a request whose LLM call has been issued has persisted its
\* user message with the file-id list as it was sent.
C9_DanglingFileIds ==
    \A r \in Reqs :
        /\ req[r].raised \in {"", ErrNoKey, ErrStore, ErrGateway}
        /\ req[r].pc \in {"ins_user", "touch", "upsert", "llm"} =>
              req[r].file_contents = ResolvedAttachments(req[r].files)
        /\ req[r].pc = "llm" =>
              \E k \in MessagesOf(r) :
                  /\ messages[k].role = "user"
                  /\ messages[k].files = req[r].files

\* The LLM call has been issued for a request that named a bogus id and two
\* uploaded files.
C9_Witness ==
    \E r, q \in Reqs :
        /\ req[r].pc = "llm"
        /\ \E i \in DOMAIN req[r].files : req[r].files[i] \in BogusFiles
        /\ Len(req[r].file_contents) < Len(req[r].files)
        /\ req[q].pc = "llm"
        /\ Len(req[q].file_contents) = 2
        /\ req[q].file_contents[1] # req[q].file_contents[2]

\* C10 as claimed: delete_session(id) on a store with no session document and
\* no message of id changes nothing, and delete_session(id) run twice leaves
\* the store as one run does.
C10_Idempotent ==
    \A sid \in AllSids :
        LET once == <<delete_one(sessions, sid), delete_many(messages, sid)>>
            twice == <<delete_one(once[1], sid), delete_many(once[2], sid)>>
        IN  /\ (Matching(sessions, sid) = {}
                /\ \A k \in DOMAIN messages : messages[k].session_id # sid)
               => once = <<sessions, messages>>
            /\ twice = once

\* C11 as claimed: no two session records share an id.
C11_UniqueSessionIds ==
    \A i, j \in DOMAIN sessions :
        sessions[i].id = sessions[j].id => i = j

\* C12: in every list get_sessions can return, every entry has
\* updated_at >= created_at.
C12_UpdatedNotBeforeCreated ==
    \A out \in get_sessions :
        \A i \in DOMAIN out : out[i].updated_at >= out[i].created_at

\* get_sessions returns a session that create_session stored and a later chat
\* touched, next to a session that only an upsert stored.
C12_Witness ==
    \E out \in get_sessions :
        \E i, j \in DOMAIN out :
            /\ out[i].updated_at > out[i].created_at
            /\ \E k \in DOMAIN sessions :
                   /\ sessions[k].id = out[j].id
                   /\ "created_at" \notin DOMAIN sessions[k]
            /\ \E r \in Reqs :
                   /\ req[r].session_id = out[i].id
                   /\ resp[r].status = 200

\* C13 as claimed: with the credential configured, every chat request that
\* ended on a failure returned status 200 and one error frame.
C13_Original ==
    \A r \in Reqs :
        (api_key /\ req[r].pc = "closed" /\ req[r].raised # "")
        => /\ resp[r].status = 200
           /\ resp[r].frames = <<[error |-> req[r].raised]>>

\* C13: with the credential configured, a chat request that fails inside
\* generate() (the LLM call, the assistant-message insert) ends with status
\* 200 and the error frame as its only frame; one that fails before the
\* stream is returned (a file lookup, the user-message insert, the session
\* touch) ends with status 500, the failure text as detail, and no frame.
C13_FailureReport ==
    [][\A r \in Reqs :
          (api_key /\ req[r].pc # "closed" /\ req'[r].pc = "closed"
           /\ req'[r].raised # "")
          => IF req[r].pc \in {"llm", "ins_asst"}
             THEN /\ resp'[r].status = 200
                  /\ resp'[r].frames = <<[error |-> req'[r].raised]>>
             ELSE /\ req[r].pc \in {"lookup", "ins_user", "touch", "upsert"}
                  /\ resp'[r].status = 500
                  /\ resp'[r].detail = req'[r].raised
                  /\ resp'[r].frames = <<>>]_vars

\* One request failed on a store operation before the stream and another on
\* the assistant-message insert inside generate().
C13_Witness ==
    \E r, q \in Reqs :
        /\ api_key
        /\ req[r].pc = "closed" /\ req[r].raised = ErrStore
        /\ resp[r].status = 500
        /\ req[q].pc = "closed" /\ req[q].raised = ErrStore
        /\ resp[q].status = 200
        /\ resp[q].frames = <<[error |-> ErrStore]>>

\* C14: with the credential absent, a chat request never gets past the
\* credential check: the step that takes it up ends it with status 500, the
\* detail "API key not configured" and no frame, and leaves the sessions and
\* messages collections as they were; no request is ever at a file lookup,
\* a store write or the LLM call.
C14_NoCredential ==
    [][~api_key =>
          \A r \in Reqs :
              /\ req'[r].pc \in {"idle", "closed"}
              /\ (req[r].pc = "idle" /\ req'[r].pc # "idle")
                 => /\ resp'[r] = [status |-> 500, detail |-> ErrNoKey,
                                   frames |-> <<>>]
                    /\ sessions' = sessions
                    /\ messages' = messages
                    /\ files' = files]_vars

\* Without a credential, two chat requests were refused while a session
\* record existed.
C14_Witness ==
    /\ ~api_key
    /\ sessions # <<>>
    /\ \A r \in Reqs : req[r].pc = "closed" /\ resp[r].status = 500

\* Uploads next to the handlers that write to the store: chat requests
\* (without attachments), session creation and session deletion; the clock
\* stands still.
NextFiles ==
    \/ UploadOk
    \/ UploadFail
    \/ CreateSessionOk
    \/ CreateSessionFail
    \/ \E r \in Reqs : ChatReceive(r)
    \/ \E r \in Reqs : ChatStep(r)
    \/ DeleteSessionOne
    \/ DeleteSessionMany
    \/ DeleteSessionManyFail

SpecFiles == Init /\ [][NextFiles]_vars

\* C15: no step changes or removes a file record, after every step the lookup
\* of a recorded id finds the record with the metadata it was stored with
\* (id, filename, content_type, size, path), and no two file records share an
\* id or a path.
C15_FileRecordsKept ==
    [][/\ \A k \in DOMAIN files :
              /\ k \in DOMAIN files'
              /\ files'[k] = files[k]
              /\ find_one(files', files[k].id) # 0
              /\ files'[find_one(files', files[k].id)] = files[k]
       /\ \A i, j \in DOMAIN files' :
              (files'[i].id = files'[j].id \/ files'[i].path = files'[j].path)
              => i = j]_vars

\* Two files were uploaded, and since then a session was created, a chat
\* request was answered and a session was deleted.
C15_Witness ==
    /\ Len(files) >= 2
    /\ nextSession > 1
    /\ \E r \in Reqs : req[r].pc = "closed" /\ resp[r].frames # <<>>
    /\ del.pc = "done"

\* Chat requests without attachments whose clients may disconnect from the
\* stream; nothing else runs.
NextDisconnect ==
    \/ \E r \in Reqs : ChatReceive(r)
    \/ \E r \in Reqs : ChatStep(r)
    \/ \E r \in Reqs : ClientDisconnect(r)
    \/ \E r \in Reqs : ClientDisconnectCancel(r)

SpecDisconnect == Init /\ [][NextDisconnect]_vars

\* C16 as claimed: a chat request whose client disconnected after the LLM
\* call was issued, and whose LLM call and store writes did not fail, has
\* ended with its completion persisted as an assistant message.
C16_PersistedAfterDisconnect ==
    \A r \in gone :
        (req[r].pc = "closed" /\ req[r].raised \notin {ErrGateway, ErrStore})
        => \E k \in MessagesOf(r) :
               /\ messages[k].role = "assistant"
               /\ messages[k].session_id = req[r].session_id
               /\ messages[k].content = req[r].response

\* The steps a chat request can be at after a step that left it at pc.
NextSteps(pc) ==
    CASE pc = "idle" -> {"lookup", "ins_user", "closed"}
      [] pc = "lookup" -> {"lookup", "ins_user", "closed"}
      [] pc = "ins_user" -> {"touch", "closed"}
      [] pc = "touch" -> {"upsert", "llm", "closed"}
      [] pc = "upsert" -> {"llm", "closed"}
      [] pc = "llm" -> {"ins_asst", "closed"}
      [] pc = "ins_asst" -> {"closed"}
      [] OTHER -> {}

\* The documents request r has persisted, by role.
PersistedBy(r, role, coll) ==
    {k \in DOMAIN coll : coll[k].id = MessageId(r, role)}

\* C17: a chat request goes through its steps in one order, each once: the
\* attachments are resolved one by one in list order, then the user message
\* is persisted, then the session is touched, then the LLM call is issued,
\* then the assistant message is persisted, then the data frame is emitted;
\* a request leaves this line only by ending.  The LLM call is pending only
\* with the user message persisted, the session record present and the
\* stream open; a data frame is emitted only with the assistant message
\* persisted; and it is emitted only by a request that went through the
\* assistant-message insert.
C17_StepOrder ==
    [][\A r \in Reqs :
          LET p == req[r].pc
              q == req'[r].pc
              users == PersistedBy(r, "user", messages')
              assts == PersistedBy(r, "assistant", messages')
          IN  /\ (req'[r] # req[r]) => q \in NextSteps(p)
              /\ (req'[r] # req[r] /\ p = "lookup" /\ q = "lookup")
                 => req'[r].i = req[r].i + 1
              /\ q = "lookup" => req'[r].i \in DOMAIN req'[r].files
              /\ q \in {"idle", "lookup", "ins_user"} => users = {}
              /\ q \in {"touch", "upsert", "llm", "ins_asst"} =>
                    /\ Cardinality(users) = 1
                    /\ assts = {}
                    /\ resp'[r].frames = <<>>
              /\ q \in {"llm", "ins_asst"} =>
                    /\ Matching(sessions', req'[r].session_id) # {}
                    /\ resp'[r].status = 200
              /\ q \in {"touch", "upsert"} => resp'[r].status = 0
              /\ (\E i \in DOMAIN resp'[r].frames : IsData(resp'[r].frames[i]))
                 => /\ Cardinality(users) = 1
                    /\ Cardinality(assts) = 1
                    /\ \A u \in users : \A a \in assts : u < a
              /\ (q = "closed" /\ p # "closed" /\ req'[r].raised = "")
                 => p = "ins_asst"]_vars

\* A request with attachments has gone through every step and emitted its
\* data frame.
C17_Witness ==
    \E r \in Reqs :
        /\ req[r].pc = "closed"
        /\ req[r].raised = ""
        /\ \E i \in DOMAIN resp[r].frames : IsData(resp[r].frames[i])
        /\ \E k \in PersistedBy(r, "user", messages) :
               messages[k].files # NoFiles

\* C18 as claimed: once a chat request has touched its session (its stream
\* is open), exactly one session record has the request's session id, and
\* get_sessions reports that id with the title "New Chat" and created_at
\* equal to updated_at.  (Under SpecChat no session is created by
\* create_session: every record comes from a touch of an absent id.)
C18_UpsertOnAbsent ==
    \A r \in Reqs :
        resp[r].status = 200 =>
            /\ Cardinality(Matching(sessions, req[r].session_id)) = 1
            /\ \A out \in get_sessions :
                   /\ \E i \in DOMAIN out : out[i].id = req[r].session_id
                   /\ \A i \in DOMAIN out :
                          out[i].id = req[r].session_id =>
                              /\ out[i].title = "New Chat"
                              /\ out[i].created_at = out[i].updated_at

\* The stored updated_at of the k-th session record is lower after the step
\* than before it.
Lowered(k) ==
    /\ k \in DOMAIN sessions'
    /\ sessions'[k].id = sessions[k].id
    /\ fromisoformat(sessions'[k].updated_at)
           < fromisoformat(sessions[k].updated_at)

\* Chat requests without attachments, session creation, the clock and
\* GET /sessions; no session is deleted.
NextList ==
    \/ Tick
    \/ CreateSessionOk
    \/ CreateSessionFail
    \/ \E r \in Reqs : ChatReceive(r)
    \/ \E r \in Reqs : ChatStep(r)
    \/ GetSessions

SpecList == Init /\ [][NextList]_vars

\* C20 as claimed: every session id that an earlier GET /sessions call
\* returned is reported by GET /sessions now, if it is reported, with the
\* created_at it was reported with then.
C20_CreatedAtStable ==
    \A n \in DOMAIN listed :
        \A p \in listed[n] :
            \A out \in get_sessions :
                \A i \in DOMAIN out :
                    out[i].id = p[1] => out[i].created_at = p[2]

\* C19 as claimed: no step lowers the stored updated_at of a session record.
C19_Original ==
    [][\A k \in DOMAIN sessions : ~Lowered(k)]_vars

\* C19, amended: the stored updated_at of a session record is lowered only by
\* the touch of a request r that was overtaken: another request on the same
\* session persisted its user message (and read its touch time) after r did
\* and had its touch applied before r's.  No other step lowers it.
C19_LoweredOnlyWhenOvertaken ==
    [][\A k \in DOMAIN sessions :
          Lowered(k) =>
              \E r, q \in Reqs :
                  /\ r # q
                  /\ req[r].pc = "touch" /\ req'[r].pc = "llm"
                  /\ k = FirstMatch(sessions, req[r].session_id)
                  /\ sessions'[k].updated_at = req[r].touch_ts
                  /\ req[q].session_id = req[r].session_id
                  /\ resp[q].status = 200
                  /\ \E a \in PersistedBy(r, "user", messages),
                        b \in PersistedBy(q, "user", messages) : a < b]_vars

\* Two requests on one session have both applied their touch, the one that
\* persisted its user message first applied it last, and the session's
\* updated_at is below the timestamp of the other's user message.
C19_Witness ==
    \E r, q \in Reqs :
        /\ r # q /\ req[r].session_id = req[q].session_id
        /\ resp[r].status = 200 /\ resp[q].status = 200
        /\ \E a \in PersistedBy(r, "user", messages),
              b \in PersistedBy(q, "user", messages),
              k \in Matching(sessions, req[r].session_id) :
              /\ a < b
              /\ fromisoformat(sessions[k].updated_at)
                     = fromisoformat(messages[a].timestamp)
              /\ fromisoformat(sessions[k].updated_at)
                     < fromisoformat(messages[b].timestamp)

====
